---- MODULE Spec2Model ----
(***************************************************************************)
(* Model of three pieces of the faceswap plugin tree:                      *)
(*   plugins/train/_config.py          Config (set_defaults, set_globals,  *)
(*                                     load_module)                        *)
(*   plugins/train/model/dfl_h128.py   Model (encoder, decoder, initialize)*)
(*   plugins/convert/color/avg_color.py  Color.process                     *)
(*                                                                         *)
(* Text is modelled as a sequence of string tokens, so that concatenation, *)
(* suffix tests and substring replacement are computed and not assumed.    *)
(* Python values are records tagged with their runtime type.               *)
(***************************************************************************)
EXTENDS Integers, Sequences, FiniteSets, TLC

VARIABLES
    \* ---- plugins/train/_config.py ----
    files,          \* the plugin tree: set of [dir, name, kind]
    masks,          \* what get_available_masks() returns in this process
    status,         \* position of the Config constructor
    error,          \* the exception that left set_defaults ("" when none)
    defaults,       \* self.defaults of the Config under construction
    stack,          \* directories os.walk has still to yield (next first)
    dirpath,        \* directory os.walk yielded last
    default_files,  \* files of dirpath the inner loop has still to load
    loaded,         \* modules handed to import_module so far, in order
    exposed,        \* <<registry>> once the constructor returned, else <<>>
    observed,       \* what the last reader got
    \* ---- plugins/train/model/dfl_h128.py ----
    variant,        \* side of the unresolved merge the build keeps
    models,         \* the Model objects created so far
    heap,           \* every SubNetwork instance created so far, by identity
    \* ---- plugins/convert/color/avg_color.py ----
    call,           \* the arguments of one Color.process call, and the NumPy in use
    result          \* <<>> until the call ended, then <<what it returned or raised>>

cvars == <<files, masks, status, error, defaults, stack, dirpath,
           default_files, loaded, exposed, observed>>

mvars == <<variant, models, heap>>

kvars == <<call, result>>

vars == <<cvars, mvars, kvars>>

(***************************************************************************)
(* Generic helpers                                                         *)
(***************************************************************************)
Last(s) == s[Len(s)]

RECURSIVE Concat(_)
Concat(ss) == IF ss = <<>> THEN <<>> ELSE Head(ss) \o Concat(Tail(ss))

\* str.endswith on token sequences
EndsWith(s, suffix) ==
    /\ Len(s) >= Len(suffix)
    /\ SubSeq(s, Len(s) - Len(suffix) + 1, Len(s)) = suffix

\* str.replace(old, "") for a one-token old: every occurrence goes
RECURSIVE Remove(_, _)
Remove(s, tok) ==
    IF s = <<>> THEN <<>>
    ELSE IF Head(s) = tok THEN Remove(Tail(s), tok)
         ELSE <<Head(s)>> \o Remove(Tail(s), tok)

\* ".".join(parts)
RECURSIVE JoinDot(_)
JoinDot(parts) ==
    IF parts = <<>> THEN <<>>
    ELSE IF Len(parts) = 1 THEN Head(parts)
         ELSE Head(parts) \o <<".">> \o JoinDot(Tail(parts))

\* str.split(".")
RECURSIVE SplitDot(_)
SplitDot(s) ==
    IF \A i \in 1..Len(s) : s[i] # "." THEN <<s>>
    ELSE LET i == CHOOSE k \in 1..Len(s) :
                      s[k] = "." /\ \A j \in 1..(k - 1) : s[j] # "."
         IN  <<SubSeq(s, 1, i - 1)>> \o SplitDot(SubSeq(s, i + 1, Len(s)))

\* every enumeration of a finite set as a sequence
Perms(S) ==
    {p \in [1..Cardinality(S) -> S] : \A i, j \in 1..Cardinality(S) :
                                          p[i] = p[j] => i = j}

(***************************************************************************)
(* Python values, tagged with their runtime type.  A float is m * 10^e.    *)
(***************************************************************************)
PyBool(x) == [t |-> "bool", b |-> x, s |-> "", m |-> 0, e |-> 0]
PyStr(x) == [t |-> "str", b |-> FALSE, s |-> x, m |-> 0, e |-> 0]
PyFloat(mant, exp) == [t |-> "float", b |-> FALSE, s |-> "", m |-> mant, e |-> exp]
PyInt(n) == [t |-> "int", b |-> FALSE, s |-> "", m |-> n, e |-> 0]

RECURSIVE Pow10(_)
Pow10(n) == IF n = 0 THEN 1 ELSE 10 * Pow10(n - 1)

\* x <= y for numeric values
NumLE(x, y) ==
    LET lo == IF x.e < y.e THEN x.e ELSE y.e
    IN  x.m * Pow10(x.e - lo) <= y.m * Pow10(y.e - lo)

NumEq(x, y) == NumLE(x, y) /\ NumLE(y, x)

(***************************************************************************)
(* The registry (FaceswapConfig.defaults): an ordered mapping, modelled as *)
(* a sequence of sections, each with an ordered sequence of options.       *)
(***************************************************************************)
SectionTitles(reg) == {reg[i].title : i \in 1..Len(reg)}

SectionOf(reg, title) == reg[CHOOSE i \in 1..Len(reg) : reg[i].title = title]

ItemTitles(sec) == {sec.items[i].title : i \in 1..Len(sec.items)}

ItemOf(sec, title) ==
    sec.items[CHOOSE i \in 1..Len(sec.items) : sec.items[i].title = title]

SupportedTypes == {"bool", "float", "str", "int"}

\* keyword arguments of add_item; <<>> stands for an argument not passed
Option(title, datatype, default, choices, min_max, rounding, fixed, info) ==
    [title |-> title, datatype |-> datatype, default |-> default,
     choices |-> choices, min_max |-> min_max, rounding |-> rounding,
     fixed |-> fixed, info |-> info]

\* FaceswapConfig.add_section: fails if the title is already registered
add_section(reg, title, info) ==
    IF title \in SectionTitles(reg)
    THEN [ok |-> FALSE, exc |-> "DuplicateSection", reg |-> reg]
    ELSE [ok |-> TRUE, exc |-> "",
          reg |-> Append(reg, [title |-> title, helptext |-> info, items |-> <<>>])]

\* FaceswapConfig.add_item: fails on an unknown section, a title the section
\* already has, or an unsupported datatype
add_item(reg, section, opt) ==
    IF section \notin SectionTitles(reg)
    THEN [ok |-> FALSE, exc |-> "UnknownSection", reg |-> reg]
    ELSE IF opt.title \in ItemTitles(SectionOf(reg, section))
    THEN [ok |-> FALSE, exc |-> "DuplicateItem", reg |-> reg]
    ELSE IF opt.datatype \notin SupportedTypes
    THEN [ok |-> FALSE, exc |-> "UnsupportedType", reg |-> reg]
    ELSE [ok |-> TRUE, exc |-> "",
          reg |-> [i \in 1..Len(reg) |->
                     IF reg[i].title = section
                     THEN [reg[i] EXCEPT !.items = Append(@, opt)]
                     ELSE reg[i]]]

\* a run of add_item calls; the first failure propagates
RECURSIVE add_items(_, _, _)
add_items(reg, section, opts) ==
    IF opts = <<>> THEN [ok |-> TRUE, exc |-> "", reg |-> reg]
    ELSE LET r == add_item(reg, section, Head(opts))
         IN  IF r.ok THEN add_items(r.reg, section, Tail(opts)) ELSE r

(***************************************************************************)
(* plugins/train/_config.py                                                *)
(***************************************************************************)
ADDITIONAL_INFO ==
    <<"\nNB: Unless specifically stated, values changed here will only take effect when creating a new model.">>

GlobalTitle == <<"global">>

GlobalInfo == <<"Options that apply to all models">> \o ADDITIONAL_INFO

LossFunctions ==
    <<"Mean_Absolute_Error", "Mean_Squared_Error", "LogCosh", "Smooth_L1",
      "L_inf_norm", "SSIM", "GMSD", "Pixel_Gradient_Difference">>

\* lib.model.masks.get_available_masks: the sorted mask classes, then "none"
AvailableMasks ==
    {<<"none">>,
     <<"components", "dfl_full", "extended", "facehull", "none">>}

\* penalized_mask_loss registered as off by default
BoolItems_mask_loss_off ==
    <<Option("icnr_init", "bool", PyBool(FALSE), <<>>, <<>>, <<>>, <<>>,
             "Use ICNR to tile the default initializer"),
      Option("conv_aware_init", "bool", PyBool(FALSE), <<>>, <<>>, <<>>, <<>>,
             "Use Convolution Aware Initialization"),
      Option("subpixel_upscaling", "bool", PyBool(FALSE), <<>>, <<>>, <<>>, <<>>,
             "Use subpixel upscaling rather than pixel shuffler"),
      Option("reflect_padding", "bool", PyBool(FALSE), <<>>, <<>>, <<>>, <<>>,
             "Use reflection padding rather than zero padding"),
      Option("penalized_mask_loss", "bool", PyBool(FALSE), <<>>, <<>>, <<>>, <<>>,
             "Image loss function is weighted by mask presence")>>

\* set_globals: the five add_item calls for the boolean options
BoolItems ==
    <<Option("icnr_init", "bool", PyBool(FALSE), <<>>, <<>>, <<>>, <<>>,
             "Use ICNR to tile the default initializer"),
      Option("conv_aware_init", "bool", PyBool(FALSE), <<>>, <<>>, <<>>, <<>>,
             "Use Convolution Aware Initialization"),
      Option("subpixel_upscaling", "bool", PyBool(FALSE), <<>>, <<>>, <<>>, <<>>,
             "Use subpixel upscaling rather than pixel shuffler"),
      Option("reflect_padding", "bool", PyBool(FALSE), <<>>, <<>>, <<>>, <<>>,
             "Use reflection padding rather than zero padding"),
      Option("penalized_mask_loss", "bool", PyBool(TRUE), <<>>, <<>>, <<>>, <<>>,
             "Image loss function is weighted by mask presence")>>

\* set_globals: the add_item calls for image_loss_function and mask_type
ChoiceItems(available) ==
    <<Option("image_loss_function", "str", PyStr("Mean_Absolute_Error"),
             LossFunctions, <<>>, <<>>, <<>>, "Loss functions"),
      Option("mask_type", "str", PyStr("none"), available, <<>>, <<>>, <<>>,
             "The mask to be used for training")>>

\* learning_rate default 5e-4: a slip of the exponent
NumericItems_wrong_rate ==
    <<Option("learning_rate", "float", PyFloat(5, -4), <<>>,
             <<PyFloat(1, -6), PyFloat(1, -4)>>, <<6>>, <<FALSE>>, "Learning rate"),
      Option("coverage", "float", PyFloat(6875, -2), <<>>,
             <<PyFloat(625, -1), PyFloat(1000, -1)>>, <<>>, <<TRUE>>,
             "How much of the extracted image to train on")>>

\* set_globals: the add_item calls for learning_rate and coverage
NumericItems ==
    <<Option("learning_rate", "float", PyFloat(5, -5), <<>>,
             <<PyFloat(1, -6), PyFloat(1, -4)>>, <<6>>, <<FALSE>>, "Learning rate"),
      Option("coverage", "float", PyFloat(6875, -2), <<>>,
             <<PyFloat(625, -1), PyFloat(1000, -1)>>, <<>>, <<TRUE>>,
             "How much of the extracted image to train on")>>

\* the add_item calls of set_globals, in order
GlobalItems(available) == BoolItems \o ChoiceItems(available) \o NumericItems

\* Config.set_globals
set_globals(reg, available) ==
    LET r == add_section(reg, GlobalTitle, GlobalInfo)
    IN  IF r.ok THEN add_items(r.reg, GlobalTitle, GlobalItems(available)) ELSE r

(***************************************************************************)
(* The plugin tree under plugins/train                                     *)
(***************************************************************************)
Root == <<"/">>
Plugins == <<"plugins">>
Train == <<"train">>
ModelDir == <<"model">>
TrainerDir == <<"trainer">>
RemodelDir == <<"re", "model">>

\* dirpath with base_path taken off, as full_path_split returns it
CurrentDir == <<Root, Plugins, Train>>

PluginDirs ==
    {CurrentDir \o <<ModelDir>>,
     CurrentDir \o <<TrainerDir>>,
     CurrentDir \o <<TrainerDir, ModelDir>>,
     CurrentDir \o <<RemodelDir>>}

Subdirs(d) == {c \in PluginDirs : Len(c) = Len(d) + 1 /\ SubSeq(c, 1, Len(d)) = d}

FileNames ==
    {<<"a", "_defaults", ".py">>,
     <<"b", "_defaults", ".py">>,
     <<"a", "_defaults", "_defaults", ".py">>,
     <<"a", "_defaults", ".pyc">>}

\* what a defaults file can be: well formed, without _HELPTEXT, without
\* _DEFAULTS, or failing at import
Kinds == {"ok", "no_help", "no_defaults", "import_error"}

MaxFiles == 2

IsDefaultsFile(fname) == EndsWith(fname, <<"_defaults", ".py">>)

\* _config.py itself always sits in the walked directory
ConfigFile == [dir |-> CurrentDir, name |-> <<"_config", ".py">>, kind |-> "ok"]

\* a file the tree may hold: only a defaults file has a kind that matters,
\* and one directory is enough to hold the file that is no defaults file
FileChoices ==
    {f \in [dir : PluginDirs, name : FileNames, kind : Kinds] :
        ~IsDefaultsFile(f.name) => (f.kind = "ok" /\ f.dir = CurrentDir \o <<ModelDir>>)}

RECURSIVE TreesUpTo(_)
TreesUpTo(n) ==
    IF n = 0 THEN {{}}
    ELSE LET smaller == TreesUpTo(n - 1)
         IN  smaller \cup
             {t \cup {f} : <<t, f>> \in
                 {<<t, f>> \in smaller \X FileChoices :
                     \A g \in t : ~(g.dir = f.dir /\ g.name = f.name)}}

Trees == TreesUpTo(MaxFiles)

\* the module object import_module returns for a file
HelpTextOf(f) == <<"help for">> \o Concat(Tail(f.dir)) \o f.name

DefaultsOf(f) ==
    IF f.name = <<"b", "_defaults", ".py">>
    THEN <<Option("lowmem", "bool", PyBool(FALSE), <<>>, <<>>, <<>>, <<>>, "Lower memory"),
           Option("batch_size", "int", PyInt(64), <<>>, <<PyInt(1), PyInt(256)>>,
                  <<1>>, <<>>, "Batch size")>>
    ELSE IF f.name = <<"a", "_defaults", "_defaults", ".py">>
    THEN <<Option("mask_blur", "bool", PyBool(FALSE), <<>>, <<>>, <<>>, <<>>, "Blur")>>
    ELSE IF Len(f.dir) = Len(CurrentDir) + 1
    THEN <<Option("lowmem", "bool", PyBool(FALSE), <<>>, <<>>, <<>>, <<>>, "Lower memory")>>
    ELSE <<Option("dssim_loss", "bool", PyBool(FALSE), <<>>, <<>>, <<>>, <<>>, "DSSIM")>>

ModuleOf(f) == [kind |-> f.kind, _HELPTEXT |-> HelpTextOf(f), _DEFAULTS |-> DefaultsOf(f)]

\* os.path.splitext(filename)[0]
SplitExtRoot(fname) ==
    IF Len(fname) > 1 /\ Last(fname) \in {".py", ".pyc"}
    THEN SubSeq(fname, 1, Len(fname) - 1)
    ELSE fname

\* import_path of set_defaults
ImportPath(dir) == JoinDot(Tail(dir))

\* plugin_type of set_defaults
PluginType(import_path) == Last(SplitDot(import_path))

\* section of load_module
SectionName(filename, plugin_type) ==
    JoinDot(<<plugin_type, Remove(SplitExtRoot(filename), "_defaults")>>)

Raised(exc, reg) == [ok |-> FALSE, exc |-> exc, reg |-> reg]

\* every failure is caught and the file skipped
load_module_swallow(reg, filename, module_path, plugin_type, mod) ==
    LET section == SectionName(filename, plugin_type)
        helptext == mod._HELPTEXT
                    \o (IF EndsWith(module_path, <<"model">>) THEN ADDITIONAL_INFO ELSE <<>>)
        sec == add_section(reg, section, helptext)
        its == add_items(sec.reg, section, mod._DEFAULTS)
    IN  IF mod.kind \in {"import_error", "no_help"} THEN [ok |-> TRUE, exc |-> "", reg |-> reg]
        ELSE IF ~sec.ok THEN [ok |-> TRUE, exc |-> "", reg |-> reg]
        ELSE IF mod.kind = "no_defaults" THEN [ok |-> TRUE, exc |-> "", reg |-> sec.reg]
        ELSE [ok |-> TRUE, exc |-> "", reg |-> its.reg]

\* the options are added whether or not add_section accepted the title
load_module_reuse(reg, filename, module_path, plugin_type, mod) ==
    LET section == SectionName(filename, plugin_type)
        helptext == mod._HELPTEXT
                    \o (IF EndsWith(module_path, <<"model">>) THEN ADDITIONAL_INFO ELSE <<>>)
        sec == add_section(reg, section, helptext)
        its == add_items(sec.reg, section, mod._DEFAULTS)
    IN  IF mod.kind = "import_error" THEN Raised("ImportError", reg)
        ELSE IF mod.kind = "no_help" THEN Raised("AttributeError", reg)
        ELSE IF mod.kind = "no_defaults" THEN Raised("AttributeError", sec.reg)
        ELSE its

\* the addendum is appended to every help text
load_module_addendum(reg, filename, module_path, plugin_type, mod) ==
    LET section == SectionName(filename, plugin_type)
        helptext == mod._HELPTEXT \o ADDITIONAL_INFO
        sec == add_section(reg, section, helptext)
        its == add_items(sec.reg, section, mod._DEFAULTS)
    IN  IF mod.kind = "import_error" THEN Raised("ImportError", reg)
        ELSE IF mod.kind = "no_help" THEN Raised("AttributeError", reg)
        ELSE IF ~sec.ok THEN sec
        ELSE IF mod.kind = "no_defaults" THEN Raised("AttributeError", sec.reg)
        ELSE its

\* Config.load_module; mod is what import_module returns (or fails with)
load_module(reg, filename, module_path, plugin_type, mod) ==
    LET section == SectionName(filename, plugin_type)
        helptext == mod._HELPTEXT
                    \o (IF EndsWith(module_path, <<"model">>) THEN ADDITIONAL_INFO ELSE <<>>)
        sec == add_section(reg, section, helptext)
        its == add_items(sec.reg, section, mod._DEFAULTS)
    IN  IF mod.kind = "import_error" THEN Raised("ImportError", reg)
        ELSE IF mod.kind = "no_help" THEN Raised("AttributeError", reg)
        ELSE IF ~sec.ok THEN sec
        ELSE IF mod.kind = "no_defaults" THEN Raised("AttributeError", sec.reg)
        ELSE its

(***************************************************************************)
(* Construction of a Config: FaceswapConfig.__init__ calls set_defaults    *)
(* and hands the object out only when that returns.                        *)
(***************************************************************************)
IdleModel ==
    /\ variant = "HEAD"
    /\ models = <<>>
    /\ heap = <<>>

IdleColor ==
    /\ call = <<>>
    /\ result = <<>>

InitConfig ==
    /\ IdleModel
    /\ IdleColor
    /\ files \in {t \cup {ConfigFile} : t \in Trees}
    /\ masks \in AvailableMasks
    /\ status = "init"
    /\ error = ""
    /\ defaults = <<>>
    /\ stack = <<>>
    /\ dirpath = <<>>
    /\ default_files = {}
    /\ loaded = <<>>
    /\ exposed = <<>>
    /\ observed = <<>>

\* set_defaults, line 26: self.set_globals()
SetGlobals ==
    /\ status = "init"
    /\ LET r == set_globals(defaults, masks)
       IN  /\ defaults' = r.reg
           /\ status' = IF r.ok THEN "walking" ELSE "raised"
           /\ error' = r.exc
    /\ stack' = <<CurrentDir>>
    /\ UNCHANGED <<files, masks, dirpath, default_files, loaded, exposed, observed>>
    /\ UNCHANGED <<mvars, kvars>>

\* set_defaults, lines 28-31: os.walk yields the next directory, depth first
WalkDir ==
    /\ status = "walking"
    /\ default_files = {}
    /\ stack # <<>>
    /\ dirpath' = Head(stack)
    /\ \E sub \in Perms(Subdirs(Head(stack))) : stack' = sub \o Tail(stack)
    /\ default_files' = {f.name : f \in {g \in files : g.dir = Head(stack)
                                                      /\ IsDefaultsFile(g.name)}}
    /\ UNCHANGED <<files, masks, status, error, defaults, loaded, exposed, observed>>
    /\ UNCHANGED <<mvars, kvars>>

\* set_defaults, lines 32-36: one turn of the inner loop
LoadModule ==
    /\ status = "walking"
    /\ default_files # {}
    /\ \E f \in files :
        /\ f.dir = dirpath
        /\ f.name \in default_files
        /\ LET import_path == ImportPath(dirpath)
               plugin_type == PluginType(import_path)
               r == load_module(defaults, f.name, import_path, plugin_type, ModuleOf(f))
           IN  /\ defaults' = r.reg
               /\ status' = IF r.ok THEN "walking" ELSE "raised"
               /\ error' = r.exc
        /\ loaded' = Append(loaded, [dir |-> f.dir, name |-> f.name])
        /\ default_files' = default_files \ {f.name}
    /\ UNCHANGED <<files, masks, stack, dirpath, exposed, observed>>
    /\ UNCHANGED <<mvars, kvars>>

\* set_defaults returns; the constructor hands the registry out
Return ==
    /\ status = "walking"
    /\ default_files = {}
    /\ stack = <<>>
    /\ status' = "done"
    /\ exposed' = <<defaults>>
    /\ UNCHANGED <<files, masks, error, defaults, stack, dirpath, default_files,
                   loaded, observed>>
    /\ UNCHANGED <<mvars, kvars>>

\* a consumer reads whatever registry it was handed
Read ==
    /\ observed # exposed
    /\ observed' = exposed
    /\ UNCHANGED <<files, masks, status, error, defaults, stack, dirpath,
                   default_files, loaded, exposed>>
    /\ UNCHANGED <<mvars, kvars>>

NextConfig == SetGlobals \/ WalkDir \/ LoadModule \/ Return \/ Read

SpecConfig == InitConfig /\ [][NextConfig]_vars

(***************************************************************************)
(* plugins/train/model/dfl_h128.py                                         *)
(*                                                                         *)
(* The file holds an unresolved merge: between the conflict markers it     *)
(* carries the HEAD side and the incoming side of every conflicting hunk.  *)
(* A build keeps one side throughout; which one is not decided by the      *)
(* file, so the model leaves it open.                                      *)
(***************************************************************************)
Sides == {"HEAD", "incoming"}

PyNone == [t |-> "NoneType", b |-> FALSE, s |-> "", m |-> 0, e |-> 0]

\* Python truth value
Truthy(v) ==
    CASE v.t = "bool" -> v.b
      [] v.t = "str" -> v.s # ""
      [] v.t = "NoneType" -> FALSE
      [] OTHER -> v.m # 0

\* dict.get(key, default)
DictGet(d, key, default) == IF key \in DOMAIN d THEN d[key] ELSE default

MaskTypeValues == {PyNone, PyStr(""), PyStr("none"), PyStr("components")}

\* resolved configurations: lowmem always present, mask_type present or not
Configs ==
    {[k \in {"lowmem"} |-> PyBool(l)] : l \in BOOLEAN}
    \cup {[k \in {"lowmem", "mask_type"} |->
              IF k = "lowmem" THEN PyBool(l) ELSE v] : l \in BOOLEAN, v \in MaskTypeValues}

\* Tensor shapes are sequences of dimensions (batch dimension left out).
RECURSIVE Prod(_)
Prod(shape) == IF shape = <<>> THEN 1 ELSE Head(shape) * Prod(Tail(shape))

\* nn_blocks conv: Conv2D(filters, kernel 5, strides 2, padding "same")
conv(shape, filters) == <<(shape[1] + 1) \div 2, (shape[2] + 1) \div 2, filters>>

\* nn_blocks upscale: Conv2D(filters * 4, padding "same"), then PixelShuffler
upscale(shape, filters) == <<shape[1] * 2, shape[2] * 2, filters>>

\* keras Flatten, Dense, Reshape, Conv2D(padding "same"); an empty shape
\* stands for the ValueError keras raises while the graph is built
KFlatten(shape) == <<Prod(shape)>>

Dense(shape, units) == IF Len(shape) = 1 THEN <<units>> ELSE SubSeq(shape, 1, Len(shape) - 1) \o <<units>>

Reshape(shape, target) == IF Prod(shape) = Prod(target) THEN target ELSE <<>>

Conv2D(shape, filters) == IF Len(shape) = 3 THEN <<shape[1], shape[2], filters>> ELSE <<>>

\* a keras Model: declared input shape and output shapes
KerasModel(input, outputs) ==
    [ok |-> \A i \in 1..Len(outputs) : outputs[i] # <<>>, input |-> input, outputs |-> outputs]

\* calling a keras Model on a tensor: the tensor must have the input shape
Call(net, shape) == IF net.ok /\ shape = net.input THEN net.outputs ELSE <<>>

\* Model.__init__, lines 29-30 / 33-34
InputShape == <<128, 128, 3>>

EncoderDim(config) == IF Truthy(config["lowmem"]) THEN 256 ELSE 512

\* Model.encoder (both sides build the same layers)
encoder(self) ==
    LET input_ == self.input_shape
        x1 == conv(input_, 128)
        x2 == conv(x1, 256)
        x3 == conv(x2, 512)
        x4 == conv(x3, 1024)
        x5 == Dense(KFlatten(x4), self.encoder_dim)
        x6 == Dense(x5, 8 * 8 * self.encoder_dim)
        x7 == Reshape(x6, <<8, 8, self.encoder_dim>>)
        x8 == IF x7 = <<>> THEN <<>> ELSE upscale(x7, self.encoder_dim)
    IN  KerasModel(input_, <<x8>>)

\* the last upscale stage is missing
decoder_two_stages(self, side) ==
    LET input_ == <<16, 16, self.encoder_dim>>
        v1 == upscale(input_, self.encoder_dim)
        v2 == upscale(v1, self.encoder_dim \div 2)
        var_x == Conv2D(v2, 3)
        var_y == Conv2D(v2, 1)
    IN  IF side = "HEAD" THEN KerasModel(input_, <<var_x, var_y>>)
        ELSE IF Truthy(DictGet(self.config, "mask_type", PyNone))
             THEN KerasModel(input_, <<var_x, var_y>>)
             ELSE KerasModel(input_, <<var_x>>)

\* Model.decoder: HEAD side lines 102-110, incoming side lines 112-123
decoder(self, side) ==
    LET input_ == <<16, 16, self.encoder_dim>>
        v1 == upscale(input_, self.encoder_dim)
        v2 == upscale(v1, self.encoder_dim \div 2)
        v3 == upscale(v2, self.encoder_dim \div 4)
        var_x == Conv2D(v3, 3)
        var_y == Conv2D(v3, 1)
    IN  IF side = "HEAD" THEN KerasModel(input_, <<var_x, var_y>>)
        ELSE IF Truthy(DictGet(self.config, "mask_type", PyNone))
             THEN KerasModel(input_, <<var_x, var_y>>)
             ELSE KerasModel(input_, <<var_x>>)

\* a SubNetwork instance on the heap; its identity is its index
SubNetwork(kind, owner, net) == [kind |-> kind, owner |-> owner, network |-> net]

NoNetworks == [encoder |-> 0, decoder_a |-> 0, decoder_b |-> 0]

\* a predictor: the instances its graph runs through, and its output shapes
Predictor(inputs, enc, dec, outputs) ==
    [inputs |-> inputs, encoder |-> enc, decoder |-> dec, outputs |-> outputs]

Compose(h, enc, dec, inp) ==
    LET latent == Call(h[enc].network, inp)
    IN  IF latent = <<>> THEN <<>> ELSE Call(h[dec].network, latent[1])

\* predictor B runs through an encoder of its own
initialize_two_encoders(self, owner, h) ==
    LET mask_shape == SubSeq(self.input_shape, 1, 2) \o <<1>>
        h2 == Append(h, SubNetwork("encoder", owner, encoder(self)))
        out_a == Compose(h2, self.networks.encoder, self.networks.decoder_a, self.input_shape)
        out_b == Compose(h2, Len(h2), self.networks.decoder_b, self.input_shape)
    IN  [ok |-> out_a # <<>> /\ out_b # <<>>,
         heap |-> h2,
         predictors |-> <<Predictor(<<self.input_shape, mask_shape>>,
                                   self.networks.encoder, self.networks.decoder_a, out_a),
                         Predictor(<<self.input_shape, mask_shape>>,
                                   Len(h2), self.networks.decoder_b, out_b)>>]

\* Model.initialize, HEAD side lines 50-68
initialize(self, owner, h) ==
    LET mask_shape == SubSeq(self.input_shape, 1, 2) \o <<1>>
        out_a == Compose(h, self.networks.encoder, self.networks.decoder_a, self.input_shape)
        out_b == Compose(h, self.networks.encoder, self.networks.decoder_b, self.input_shape)
    IN  [ok |-> out_a # <<>> /\ out_b # <<>>,
         heap |-> h,
         predictors |-> <<Predictor(<<self.input_shape, mask_shape>>,
                                   self.networks.encoder, self.networks.decoder_a, out_a),
                         Predictor(<<self.input_shape, mask_shape>>,
                                   self.networks.encoder, self.networks.decoder_b, out_b)>>]

\* the initialize the incoming side inherits from OriginalModel: one image
\* input per side, the same composition
initialize_inherited(self, owner, h) ==
    LET out_a == Compose(h, self.networks.encoder, self.networks.decoder_a, self.input_shape)
        out_b == Compose(h, self.networks.encoder, self.networks.decoder_b, self.input_shape)
    IN  [ok |-> out_a # <<>> /\ out_b # <<>>,
         heap |-> h,
         predictors |-> <<Predictor(<<self.input_shape>>,
                                   self.networks.encoder, self.networks.decoder_a, out_a),
                         Predictor(<<self.input_shape>>,
                                   self.networks.encoder, self.networks.decoder_b, out_b)>>]

MaxModels == 2

IdleConfig ==
    /\ files = {}
    /\ masks = <<>>
    /\ status = "idle"
    /\ error = ""
    /\ defaults = <<>>
    /\ stack = <<>>
    /\ dirpath = <<>>
    /\ default_files = {}
    /\ loaded = <<>>
    /\ exposed = <<>>
    /\ observed = <<>>

InitModel ==
    /\ IdleConfig
    /\ IdleColor
    /\ variant \in Sides
    /\ models = <<>>
    /\ heap = <<>>

\* Model.__init__ with a resolved configuration
NewModel ==
    /\ Len(models) < MaxModels
    /\ \E config \in Configs :
          models' = Append(models, [config |-> config,
                                    input_shape |-> InputShape,
                                    encoder_dim |-> EncoderDim(config),
                                    networks |-> NoNetworks,
                                    predictors |-> <<>>,
                                    pc |-> "created"])
    /\ UNCHANGED <<variant, heap>>
    /\ UNCHANGED <<cvars, kvars>>

\* OriginalModel.add_networks: decoder a, decoder b, then the encoder
AddNetworks ==
    \E i \in 1..Len(models) :
        /\ models[i].pc = "created"
        /\ heap' = heap \o <<SubNetwork("decoder", i, decoder(models[i], variant)),
                             SubNetwork("decoder", i, decoder(models[i], variant)),
                             SubNetwork("encoder", i, encoder(models[i]))>>
        /\ models' = [models EXCEPT ![i].networks = [decoder_a |-> Len(heap) + 1,
                                                     decoder_b |-> Len(heap) + 2,
                                                     encoder |-> Len(heap) + 3],
                                    ![i].pc = "networks"]
        /\ UNCHANGED variant
        /\ UNCHANGED <<cvars, kvars>>

\* Model.initialize
Initialize ==
    \E i \in 1..Len(models) :
        /\ models[i].pc = "networks"
        /\ LET r == IF variant = "HEAD" THEN initialize(models[i], i, heap)
                    ELSE initialize_inherited(models[i], i, heap)
           IN  /\ heap' = r.heap
               /\ models' = [models EXCEPT ![i].predictors = r.predictors,
                                           ![i].pc = IF r.ok THEN "initialized" ELSE "failed"]
        /\ UNCHANGED variant
        /\ UNCHANGED <<cvars, kvars>>

NextModel == NewModel \/ AddNetworks \/ Initialize

SpecModel == InitModel /\ [][NextModel]_vars

(***************************************************************************)
(* plugins/convert/color/avg_color.py                                      *)
(*                                                                         *)
(* An array is [shape, dtype, data], data in row-major order.  Means and   *)
(* shifted pixels are exact fractions <<numerator, denominator>>: floating *)
(* point rounding is not modelled.                                         *)
(***************************************************************************)
RECURSIVE GCD(_, _)
GCD(a, b) == IF b = 0 THEN a ELSE GCD(b, a % b)

Abs(n) == IF n < 0 THEN -n ELSE n

\* the fraction n/d in lowest terms, d > 0
Frac(n, d) ==
    LET g == GCD(Abs(n), Abs(d))
        sgn == IF d < 0 THEN -1 ELSE 1
    IN  <<sgn * (n \div g), sgn * (d \div g)>>

FracSub(x, y) == Frac(x[1] * y[2] - y[1] * x[2], x[2] * y[2])

FracAdd(x, y) == Frac(x[1] * y[2] + y[1] * x[2], x[2] * y[2])

RECURSIVE SumSeq(_)
SumSeq(q) == IF q = <<>> THEN 0 ELSE Head(q) + SumSeq(Tail(q))

Array(shape, dtype, data) == [shape |-> shape, dtype |-> dtype, data |-> data]

DTypes == {"uint8", "float32", "float64"}

IsInteger(dtype) == dtype = "uint8"

\* np.result_type on array dtypes
ResultType(d1, d2) ==
    IF "float64" \in {d1, d2} THEN "float64"
    ELSE IF "float32" \in {d1, d2} THEN "float32"
    ELSE "uint8"

Failed(exc) == [ok |-> FALSE, exc |-> exc, shape |-> <<>>, dtype |-> "", data |-> <<>>]

\* np.average(a, axis=(0, 1), weights=wgt) on a 3-D array: per channel, the
\* weighted mean over rows and columns.  Weights of another shape than a are
\* a TypeError before NumPy 2.0 (they are not 1-D); from 2.0 on they are
\* accepted when shaped like the two averaged axes.
np_average(a, wgt, numpy2) ==
    LET npix == a.shape[1] * a.shape[2]
        nch == a.shape[3]
        result_dtype == IF IsInteger(a.dtype)
                        THEN ResultType(ResultType(a.dtype, wgt.dtype), "float64")
                        ELSE ResultType(a.dtype, wgt.dtype)
        w(p, c) == IF wgt.shape = a.shape THEN wgt.data[(p - 1) * nch + c] ELSE wgt.data[p]
        scl(c) == SumSeq([p \in 1..npix |-> w(p, c)])
        tot(c) == SumSeq([p \in 1..npix |-> a.data[(p - 1) * nch + c] * w(p, c)])
    IN  IF a.shape # wgt.shape /\ ~numpy2 THEN Failed("TypeError")
        ELSE IF a.shape # wgt.shape /\ wgt.shape # SubSeq(a.shape, 1, 2) THEN Failed("ValueError")
        ELSE IF \E c \in 1..nch : scl(c) = 0 THEN Failed("ZeroDivisionError")
        ELSE [ok |-> TRUE, exc |-> "", shape |-> <<nch>>, dtype |-> result_dtype,
              data |-> [c \in 1..nch |-> Frac(tot(c), scl(c))]]

\* the result is cast back to the dtype of new_face
process_cast_back(old_face, new_face, raw_mask, numpy2) ==
    LET old_mean == np_average(old_face, raw_mask, numpy2)
        new_mean == np_average(new_face, raw_mask, numpy2)
        nch == new_face.shape[3]
    IN  IF ~old_mean.ok THEN old_mean
        ELSE IF ~new_mean.ok THEN new_mean
        ELSE [ok |-> TRUE, exc |-> "", shape |-> new_face.shape,
              dtype |-> new_face.dtype,
              data |-> [k \in 1..Len(new_face.data) |->
                          FracAdd(<<new_face.data[k], 1>>,
                                  FracSub(old_mean.data[((k - 1) % nch) + 1],
                                          new_mean.data[((k - 1) % nch) + 1]))]]

\* one shift, that of the first channel, is applied to every channel
process_first_channel(old_face, new_face, raw_mask, numpy2) ==
    LET old_mean == np_average(old_face, raw_mask, numpy2)
        new_mean == np_average(new_face, raw_mask, numpy2)
    IN  IF ~old_mean.ok THEN old_mean
        ELSE IF ~new_mean.ok THEN new_mean
        ELSE [ok |-> TRUE, exc |-> "", shape |-> new_face.shape,
              dtype |-> ResultType(new_face.dtype,
                                   ResultType(old_mean.dtype, new_mean.dtype)),
              data |-> [k \in 1..Len(new_face.data) |->
                          FracAdd(<<new_face.data[k], 1>>,
                                  FracSub(old_mean.data[1], new_mean.data[1]))]]

\* Color.process
process(old_face, new_face, raw_mask, numpy2) ==
    LET old_mean == np_average(old_face, raw_mask, numpy2)
        new_mean == np_average(new_face, raw_mask, numpy2)
        nch == new_face.shape[3]
    IN  IF ~old_mean.ok THEN old_mean
        ELSE IF ~new_mean.ok THEN new_mean
        ELSE [ok |-> TRUE, exc |-> "", shape |-> new_face.shape,
              dtype |-> ResultType(new_face.dtype,
                                   ResultType(old_mean.dtype, new_mean.dtype)),
              data |-> [k \in 1..Len(new_face.data) |->
                          FracAdd(<<new_face.data[k], 1>>,
                                  FracSub(old_mean.data[((k - 1) % nch) + 1],
                                          new_mean.data[((k - 1) % nch) + 1]))]]

(***************************************************************************)
(* Calls of Color.process                                                  *)
(***************************************************************************)
MaxWidth == 2

PixelValues == {50, 100}

Weights == {0, 1}

ChannelCounts == {1, 2}

Call4(old_face, new_face, raw_mask, numpy2) ==
    [old_face |-> old_face, new_face |-> new_face, raw_mask |-> raw_mask, numpy2 |-> numpy2]

\* a mask of the crop's shape, or a 2-D mask of its rows and columns
Masks(shape, dtype, weights) ==
    {Array(shape, dtype, d) : d \in [1..(shape[1] * shape[2] * shape[3]) -> weights]}
    \cup {Array(SubSeq(shape, 1, 2), dtype, d) : d \in [1..(shape[1] * shape[2]) -> weights]}

\* Either crops of one row, float32 as the docstring says, with every pixel
\* and weight drawn freely; or the 1x1 three-channel crops 100 and 50 with
\* weights 1 under every combination of dtypes.
InitColor ==
    /\ IdleConfig
    /\ IdleModel
    /\ result = <<>>
    /\ \/ \E wd \in 1..MaxWidth, ch \in ChannelCounts :
            \E o \in [1..(wd * ch) -> PixelValues], n \in [1..(wd * ch) -> PixelValues] :
               \E mk \in Masks(<<1, wd, ch>>, "float32", Weights), v \in BOOLEAN :
                  call = <<Call4(Array(<<1, wd, ch>>, "float32", o),
                                 Array(<<1, wd, ch>>, "float32", n), mk, v)>>
       \/ \E od \in DTypes, nd \in DTypes, md \in DTypes :
            \E mk \in Masks(<<1, 1, 3>>, md, {1}), v \in BOOLEAN :
               call = <<Call4(Array(<<1, 1, 3>>, od, <<100, 100, 100>>),
                              Array(<<1, 1, 3>>, nd, <<50, 50, 50>>), mk, v)>>

\* the call runs to its return or its exception
Process ==
    /\ result = <<>>
    /\ result' = <<process(call[1].old_face, call[1].new_face, call[1].raw_mask,
                           call[1].numpy2)>>
    /\ UNCHANGED call
    /\ UNCHANGED <<cvars, mvars>>

NextColor == Process

SpecColor == InitColor /\ [][NextColor]_vars

(***************************************************************************)
(* Properties of the configuration registry                                *)
(***************************************************************************)
DefaultsFiles == {f \in files : IsDefaultsFile(f.name)}

AllWellFormed == \A f \in DefaultsFiles : f.kind = "ok"

Finished == status \in {"done", "raised"}

\* "<plugin_type>.<module_name>" as the specification words it: the last directory
\* of the path, a dot, the file name without extension and "_defaults"
NamedSection(f) ==
    Last(f.dir) \o <<".">> \o Remove(SubSeq(f.name, 1, Len(f.name) - 1), "_defaults")

DistinctSectionNames ==
    \A f, g \in DefaultsFiles : f # g => NamedSection(f) # NamedSection(g)

FileOf(l) == CHOOSE f \in files : f.dir = l.dir /\ f.name = l.name

HasSection(reg, f, help) ==
    \E i \in 1..Len(reg) :
        /\ reg[i].title = NamedSection(f)
        /\ reg[i].helptext = help
        /\ reg[i].items = DefaultsOf(f)

\* C3 as stated: over any tree of N well-formed defaults files, set_defaults
\* ends with exactly N sections besides "global", one per file, named
\* "<plugin_type>.<module_name>", with the module's help text, the addendum
\* appended exactly when the plugin type is "model".
C3_AnyTree ==
    (Finished /\ AllWellFormed) =>
        /\ status = "done"
        /\ Len(defaults) = Cardinality(DefaultsFiles) + 1
        /\ \A f \in DefaultsFiles :
              HasSection(defaults, f,
                         HelpTextOf(f) \o (IF Last(f.dir) = ModelDir
                                           THEN ADDITIONAL_INFO ELSE <<>>))

\* C3 amended: the same when the N files resolve to pairwise distinct
\* section names, the addendum being appended exactly when the import path
\* ends in the letters "model" (so also for a plugin type such as "remodel").
C3_DistinctNames ==
    (Finished /\ AllWellFormed /\ DistinctSectionNames) =>
        /\ status = "done"
        /\ Len(defaults) = Cardinality(DefaultsFiles) + 1
        /\ defaults[1].title = GlobalTitle
        /\ \A f \in DefaultsFiles :
              HasSection(defaults, f,
                         HelpTextOf(f) \o (IF Last(Last(f.dir)) = "model"
                                           THEN ADDITIONAL_INFO ELSE <<>>))

C3_Witness ==
    /\ status = "done"
    /\ AllWellFormed
    /\ DistinctSectionNames
    /\ Cardinality(DefaultsFiles) = 2
    /\ \E f, g \in DefaultsFiles : Last(Last(f.dir)) = "model" /\ Last(Last(g.dir)) # "model"
    /\ Len(defaults) = 3

\* C4: a malformed defaults module (import failure, no _HELPTEXT, no
\* _DEFAULTS) makes set_defaults raise at that module: it is the last module
\* loaded, and no registry is handed out or read; a registry that is handed
\* out holds the complete section of every defaults file.
C4_MalformedAborts ==
    /\ \A i \in 1..Len(loaded) :
          FileOf(loaded[i]).kind # "ok" =>
              /\ status = "raised"
              /\ error # ""
              /\ i = Len(loaded)
              /\ exposed = <<>>
              /\ observed = <<>>
    /\ exposed # <<>> =>
          /\ status = "done"
          /\ \A f \in DefaultsFiles :
                f.kind = "ok" /\ \E i \in 1..Len(exposed[1]) :
                                    /\ exposed[1][i].title = NamedSection(f)
                                    /\ exposed[1][i].items = DefaultsOf(f)
    /\ observed # <<>> => observed = exposed

\* the failing module's section is in self.defaults without its options, an
\* earlier module's section is complete, a later file is still unloaded
C4_Witness ==
    /\ status = "raised"
    /\ error = "AttributeError"
    /\ Len(defaults) = 3
    /\ defaults[2].items # <<>>
    /\ defaults[3].items = <<>>
    /\ exposed = <<>>

\* C5: no section title and no option title of a section is registered
\* twice; when a second defaults file resolves to a section name already
\* registered, its registration raises and the section registered first
\* keeps its help text and options.
C5_NoDuplicates ==
    /\ \A i, j \in 1..Len(defaults) : defaults[i].title = defaults[j].title => i = j
    /\ \A i \in 1..Len(defaults) : \A j, k \in 1..Len(defaults[i].items) :
          defaults[i].items[j].title = defaults[i].items[k].title => j = k
    /\ \A i, j \in 1..Len(loaded) :
          (i < j /\ NamedSection(FileOf(loaded[i])) = NamedSection(FileOf(loaded[j]))) =>
              /\ status = "raised"
              /\ FileOf(loaded[j]).kind \in {"ok", "no_defaults"} => error = "DuplicateSection"
              /\ j = Len(loaded)
              /\ \E k \in 1..Len(defaults) :
                    /\ defaults[k].title = NamedSection(FileOf(loaded[i]))
                    /\ defaults[k].helptext # HelpTextOf(FileOf(loaded[j]))
                    /\ SubSeq(defaults[k].helptext, 1, Len(HelpTextOf(FileOf(loaded[i]))))
                           = HelpTextOf(FileOf(loaded[i]))
                    /\ defaults[k].items = DefaultsOf(FileOf(loaded[i]))

\* two files in different directories resolved to one section name
C5_Witness ==
    /\ status = "raised"
    /\ error = "DuplicateSection"
    /\ Len(loaded) = 2
    /\ loaded[1].dir # loaded[2].dir
    /\ loaded[1].name = loaded[2].name
    /\ Len(defaults) = 2

GlobalSection == SectionOf(defaults, GlobalTitle)

Summary(o) == <<o.title, o.datatype, o.default>>

Range(s) == {s[i] : i \in 1..Len(s)}

\* C6: after set_globals the section "global" holds exactly the nine
\* options icnr_init, conv_aware_init, subpixel_upscaling, reflect_padding,
\* penalized_mask_loss, image_loss_function, mask_type, learning_rate and
\* coverage, with the stated datatypes, defaults, choices and bounds.
C6_GlobalOptions ==
    status # "init" =>
        /\ GlobalTitle \in SectionTitles(defaults)
        /\ Len(GlobalSection.items) = 9
        /\ {Summary(GlobalSection.items[i]) : i \in 1..9} =
              {<<"icnr_init", "bool", PyBool(FALSE)>>,
               <<"conv_aware_init", "bool", PyBool(FALSE)>>,
               <<"subpixel_upscaling", "bool", PyBool(FALSE)>>,
               <<"reflect_padding", "bool", PyBool(FALSE)>>,
               <<"penalized_mask_loss", "bool", PyBool(TRUE)>>,
               <<"image_loss_function", "str", PyStr("Mean_Absolute_Error")>>,
               <<"mask_type", "str", PyStr("none")>>,
               <<"learning_rate", "float", PyFloat(5, -5)>>,
               <<"coverage", "float", PyFloat(6875, -2)>>}
        /\ Len(ItemOf(GlobalSection, "image_loss_function").choices) = 8
        /\ Range(ItemOf(GlobalSection, "image_loss_function").choices) =
              {"Mean_Absolute_Error", "Mean_Squared_Error", "LogCosh", "Smooth_L1",
               "L_inf_norm", "SSIM", "GMSD", "Pixel_Gradient_Difference"}
        /\ ItemOf(GlobalSection, "mask_type").choices = masks
        /\ Len(ItemOf(GlobalSection, "learning_rate").min_max) = 2
        /\ NumEq(ItemOf(GlobalSection, "learning_rate").min_max[1], PyFloat(1, -6))
        /\ NumEq(ItemOf(GlobalSection, "learning_rate").min_max[2], PyFloat(1, -4))
        /\ ItemOf(GlobalSection, "learning_rate").rounding = <<6>>
        /\ Len(ItemOf(GlobalSection, "coverage").min_max) = 2
        /\ NumEq(ItemOf(GlobalSection, "coverage").min_max[1], PyFloat(625, -1))
        /\ NumEq(ItemOf(GlobalSection, "coverage").min_max[2], PyFloat(100, 0))
        /\ ItemOf(GlobalSection, "coverage").fixed = <<TRUE>>
        /\ \A t \in {"icnr_init", "conv_aware_init", "subpixel_upscaling",
                     "reflect_padding", "penalized_mask_loss"} :
              /\ ItemOf(GlobalSection, t).choices = <<>>
              /\ ItemOf(GlobalSection, t).min_max = <<>>

C6_Witness ==
    /\ status = "walking"
    /\ Len(defaults) = 1
    /\ Len(defaults[1].items) = 9
    /\ Len(masks) = 5

\* the ConfigOption invariant, on an option whose current value is its default
OptionInvariant(o) ==
    /\ o.default.t = o.datatype
    /\ o.min_max # <<>> => NumLE(o.min_max[1], o.default) /\ NumLE(o.default, o.min_max[2])
    /\ o.choices # <<>> => o.default.s \in Range(o.choices)

\* C10: right after set_globals every option of "global" has a default of
\* its declared datatype, within its bounds when it has bounds, and among
\* its choices when it has choices.
C10_DefaultsValid ==
    status # "init" =>
        /\ \A i \in 1..Len(GlobalSection.items) : OptionInvariant(GlobalSection.items[i])
        /\ \E i \in 1..Len(GlobalSection.items) :
              /\ GlobalSection.items[i].title = "learning_rate"
              /\ GlobalSection.items[i].min_max # <<>>
        /\ \E i \in 1..Len(GlobalSection.items) :
              /\ GlobalSection.items[i].title = "coverage"
              /\ GlobalSection.items[i].min_max # <<>>

C10_Witness ==
    /\ status = "walking"
    /\ stack = <<CurrentDir>>
    /\ \E i \in 1..Len(defaults[1].items) :
          /\ defaults[1].items[i].title = "mask_type"
          /\ Len(defaults[1].items[i].choices) > 1

(***************************************************************************)
(* Properties of the model definition                                      *)
(***************************************************************************)
Initialized(i) == i \in 1..Len(models) /\ models[i].pc = "initialized"

EncodersOf(i) == {n \in 1..Len(heap) : heap[n].kind = "encoder" /\ heap[n].owner = i}

\* C1: after initialize, predictor A and predictor B of one model run
\* through the same encoder instance, the one in networks["encoder"], and
\* each through its own decoder (decoder_a, decoder_b); the model has no
\* second encoder instance.
C1_SharedEncoder ==
    \A i \in 1..Len(models) :
        models[i].pc = "initialized" =>
            LET a == models[i].predictors[1]
                b == models[i].predictors[2]
                n == models[i].networks
            IN  /\ a.encoder = b.encoder
                /\ a.encoder = n.encoder
                /\ heap[n.encoder].kind = "encoder"
                /\ a.decoder = n.decoder_a
                /\ b.decoder = n.decoder_b
                /\ a.decoder # b.decoder
                /\ heap[a.decoder].kind = "decoder"
                /\ heap[b.decoder].kind = "decoder"
                /\ EncodersOf(i) = {n.encoder}

\* two models were built and initialized from the HEAD side: each shares
\* its own encoder, and the two encoders are different instances
C1_Witness ==
    /\ variant = "HEAD"
    /\ Initialized(1)
    /\ Initialized(2)
    /\ models[1].predictors[1].encoder = models[1].predictors[2].encoder
    /\ models[1].predictors[1].encoder # models[2].predictors[1].encoder

\* C2: a decoder has exactly one output tensor (the 3-channel image) when
\* mask_type is omitted or empty, and exactly two (image and 1-channel
\* mask) when mask_type is non-empty.
C2_MaskOutputIff ==
    \A n \in 1..Len(heap) :
        heap[n].kind = "decoder" =>
            LET config == models[heap[n].owner].config
                has_mask == "mask_type" \in DOMAIN config
                            /\ config["mask_type"] \notin {PyNone, PyStr("")}
                outputs == heap[n].network.outputs
            IN  /\ Len(outputs) = IF has_mask THEN 2 ELSE 1
                /\ outputs[1][3] = 3
                /\ has_mask => outputs[2][3] = 1

\* C9: encoder_dim is 256 under lowmem and 512 otherwise; the encoder maps
\* the 128x128x3 input to (16, 16, encoder_dim), which is the decoder's
\* declared input shape; the decoder's image output is 128x128x3; composing
\* the predictors never fails on a shape.
C9_ShapesAgree ==
    \A i \in 1..Len(models) :
        LET self == models[i]
            n == self.networks
        IN  /\ self.encoder_dim = IF self.config["lowmem"].b THEN 256 ELSE 512
            /\ self.pc # "failed"
            /\ self.pc \in {"networks", "initialized"} =>
                  /\ heap[n.encoder].network.ok
                  /\ heap[n.encoder].network.input = <<128, 128, 3>>
                  /\ heap[n.encoder].network.outputs = <<<<16, 16, self.encoder_dim>>>>
                  /\ \A d \in {n.decoder_a, n.decoder_b} :
                        /\ heap[d].network.ok
                        /\ heap[d].network.input = heap[n.encoder].network.outputs[1]
                        /\ heap[d].network.outputs[1] = <<128, 128, 3>>
            /\ self.pc = "initialized" =>
                  \A k \in 1..2 : self.predictors[k].outputs[1] = <<128, 128, 3>>

C9_Witness ==
    /\ Len(models) = 2
    /\ Initialized(1)
    /\ Initialized(2)
    /\ models[1].encoder_dim = 256
    /\ models[2].encoder_dim = 512

(***************************************************************************)
(* Properties of the colour adjustment                                     *)
(***************************************************************************)
Called == result # <<>>

NPix == call[1].new_face.shape[1] * call[1].new_face.shape[2]

NCh == call[1].new_face.shape[3]

SameShape == call[1].raw_mask.shape = call[1].new_face.shape

\* weight of pixel p in channel c
WeightAt(p, c) ==
    IF SameShape THEN call[1].raw_mask.data[(p - 1) * NCh + c] ELSE call[1].raw_mask.data[p]

RECURSIVE WeightSum(_, _)
WeightSum(c, p) == IF p = 0 THEN 0 ELSE WeightAt(p, c) + WeightSum(c, p - 1)

\* sum over the pixels 1..p of weight * (original - transformed), channel c
RECURSIVE WeightedGap(_, _)
WeightedGap(c, p) ==
    IF p = 0 THEN 0
    ELSE WeightAt(p, c) * (call[1].old_face.data[(p - 1) * NCh + c]
                           - call[1].new_face.data[(p - 1) * NCh + c])
         + WeightedGap(c, p - 1)

\* every pixel of every channel moved by that channel's
\* (weighted mean of original) - (weighted mean of transformed), unclamped
ShiftedByMeanGap ==
    /\ result[1].ok
    /\ Len(result[1].data) = NPix * NCh
    /\ \A p \in 1..NPix : \A c \in 1..NCh :
          LET out == result[1].data[(p - 1) * NCh + c]
              new == call[1].new_face.data[(p - 1) * NCh + c]
          IN  (out[1] - new * out[2]) * WeightSum(c, NPix) = out[2] * WeightedGap(c, NPix)

IsExample(mask_shape, mask_data) ==
    /\ call[1].old_face.shape = <<1, 1, 3>>
    /\ call[1].old_face.data = <<100, 100, 100>>
    /\ call[1].new_face.data = <<50, 50, 50>>
    /\ call[1].raw_mask.shape = mask_shape
    /\ call[1].raw_mask.data = mask_data

\* C7 as stated: for crops of one shape and any mask with a non-zero
\* weight, process returns the transformed crop with each channel shifted
\* by its weighted-mean gap; old 100, new 50, mask [[1]] give 150.
C7_AnyNonZeroMask ==
    Called =>
        /\ (\E k \in 1..Len(call[1].raw_mask.data) : call[1].raw_mask.data[k] # 0)
              => ShiftedByMeanGap
        /\ IsExample(<<1, 1>>, <<1>>) =>
              result[1].ok /\ result[1].data = <<<<150, 1>>, <<150, 1>>, <<150, 1>>>>

\* the masks np.average takes: of the crops' shape with a non-zero weight
\* sum in every channel, or, on NumPy 2.0 and later, 2-D with a non-zero sum
MaskAccepted ==
    /\ SameShape \/ (call[1].numpy2 /\ call[1].raw_mask.shape = SubSeq(call[1].new_face.shape, 1, 2))
    /\ \A c \in 1..NCh : WeightSum(c, NPix) # 0

\* C7 amended: the same for a mask of the crops' shape whose weights sum to
\* non-zero in every channel (a 2-D mask only on NumPy 2.0 and later);
\* otherwise process raises.  Old 100, new 50, mask [[[1, 1, 1]]] give
\* 50 + (100 - 50) = 100.
C7_MeanShift ==
    Called =>
        /\ MaskAccepted => ShiftedByMeanGap
        /\ ~MaskAccepted => ~result[1].ok
        /\ IsExample(<<1, 1, 3>>, <<1, 1, 1>>) =>
              result[1].ok /\ result[1].data = <<<<100, 1>>, <<100, 1>>, <<100, 1>>>>
        /\ (IsExample(<<1, 1>>, <<1>>) /\ call[1].numpy2) =>
              result[1].ok /\ result[1].data = <<<<100, 1>>, <<100, 1>>, <<100, 1>>>>

\* two pixels, two channels, weights that differ between the channels: the
\* first channel is shifted by 25, the second by 0
C7_Witness ==
    /\ Called
    /\ result[1].ok
    /\ call[1].new_face.shape = <<1, 2, 2>>
    /\ call[1].raw_mask.shape = <<1, 2, 2>>
    /\ call[1].raw_mask.data = <<1, 0, 1, 1>>
    /\ call[1].old_face.data = <<100, 100, 50, 100>>
    /\ call[1].new_face.data = <<50, 50, 50, 100>>
    /\ result[1].data = <<<<75, 1>>, <<50, 1>>, <<75, 1>>, <<100, 1>>>>

====
